---- MODULE Spec2Model ----
(***************************************************************************)
(* Model of src/pywgrib2_xr/geolocation.c: the two bridge entry points     *)
(* ll2ij and sec3latlon, the process-wide output_order flag, the           *)
(* process-wide jmp_buf fatal_err, and the four external engine functions  *)
(* they delegate to.  Two caller threads may enter the bridge; nothing in  *)
(* the source serializes them.                                             *)
(***************************************************************************)
EXTENDS Integers, Sequences, FiniteSets, TLC

\* ---------------------------------------------------------------- bounds
\* Total number of bridge calls started in one behaviour.
MaxCalls == 2

\* Caller threads.
Threads == {"A", "B"}

\* ------------------------------------------------------------- constants
\* geolocation.c:23 and :40, the status returned after a fatal unwind.
FatalStatus == 9

\* enum output_order_type of the wrapped library (geolocation.c:7).
wesn == "wesn"

OrderVals == {"raw", "wesn", "wens"}

\* Statuses an engine function may return (extern int, geolocation.c:9-12).
EngineStatus == {0, 5, 9}

\* Argument tuples of ll2ij (geolocation.c:16-17); pointers are small ids.
Ll2ijArgs ==
    { [sec |-> 1, grid_lon |-> 2, grid_lat |-> 3, npts |-> 1,
       lon |-> 4, lat |-> 5, x |-> 6, y |-> 7],
      [sec |-> 2, grid_lon |-> 3, grid_lat |-> 1, npts |-> 2,
       lon |-> 5, lat |-> 4, x |-> 7, y |-> 6] }

\* Argument tuples of sec3latlon (geolocation.c:34).
Sec3Args ==
    { [sec |-> 1, lon |-> 4, lat |-> 5],
      [sec |-> 2, lon |-> 5, lat |-> 4] }

VARIABLES
    output_order,  \* extern enum output_order_type output_order
    fatal_err,     \* extern jmp_buf fatal_err: [frame, site] it would resume
    ncalls,        \* bridge calls started so far (frame ids)
    pc,            \* per thread: position in the bridge code
    fn,            \* per thread: entry point being executed
    frame,         \* per thread: id of the current call frame
    args,          \* per thread: arguments of the current call
    i,             \* per thread: the local `int i` (<<>> while indeterminate)
    buf,           \* per thread: which engine call (index into log) wrote the
                   \* contents of the caller's output arrays (<<>> none yet)
    ret,           \* per thread: value returned by the last call (<<>> none)
    log,           \* per thread: engine calls made by the current/last call
    overlapped,    \* history: two bridge calls were ever in progress at once
    crashed        \* the process died on undefined behaviour

vars == <<output_order, fatal_err, ncalls, pc, fn, frame, args, i, buf, ret,
          log, overlapped, crashed>>

\* A jmp_buf that was never filled (zero-initialised global).
NoTarget == [frame |-> 0, site |-> "none"]

InEngine == {"gctpc_ll2xy_init", "gctpc_ll2xy", "gctpc_get_latlon", "get_latlon"}

InCall(t) == pc[t] # "idle"

Serialized == ~overlapped

Init ==
    /\ output_order \in OrderVals
    /\ fatal_err = NoTarget
    /\ ncalls = 0
    /\ pc = [t \in Threads |-> "idle"]
    /\ fn = [t \in Threads |-> "none"]
    /\ frame = [t \in Threads |-> 0]
    /\ args = [t \in Threads |-> <<>>]
    /\ i = [t \in Threads |-> <<>>]
    /\ buf = [t \in Threads |-> <<>>]
    /\ ret = [t \in Threads |-> <<>>]
    /\ log = [t \in Threads |-> <<>>]
    /\ overlapped = FALSE
    /\ crashed = FALSE

\* ------------------------------------------------------------- helpers

\* A caller enters entry point f with arguments a: a fresh frame.
Enter(t, f, a, first) ==
    /\ ~crashed
    /\ pc[t] = "idle"
    /\ ncalls < MaxCalls
    /\ ncalls' = ncalls + 1
    /\ frame' = [frame EXCEPT ![t] = ncalls + 1]
    /\ fn' = [fn EXCEPT ![t] = f]
    /\ args' = [args EXCEPT ![t] = a]
    /\ i' = [i EXCEPT ![t] = <<>>]
    /\ buf' = [buf EXCEPT ![t] = <<>>]
    /\ ret' = [ret EXCEPT ![t] = <<>>]
    /\ log' = [log EXCEPT ![t] = <<>>]
    /\ pc' = [pc EXCEPT ![t] = first]
    /\ overlapped' = (overlapped \/ \E u \in Threads \ {t} : InCall(u))
    /\ UNCHANGED <<output_order, fatal_err, crashed>>

\* The bridge calls engine function eng with actual arguments actual.
CallEngine(t, at, eng, actual) ==
    /\ ~crashed
    /\ pc[t] = at
    /\ log' = [log EXCEPT ![t] =
                 Append(@, [eng |-> eng, args |-> actual, how |-> "pending",
                            st |-> 0])]
    /\ pc' = [pc EXCEPT ![t] = eng]
    /\ UNCHANGED <<output_order, fatal_err, ncalls, fn, frame, args, i, buf,
                   ret, overlapped, crashed>>

\* `return v;` from the entry point: the caller gets v, the frame with its
\* parameters and the local i is gone.
Return(t, at, v) ==
    /\ ~crashed
    /\ pc[t] = at
    /\ ret' = [ret EXCEPT ![t] = <<v>>]
    /\ pc' = [pc EXCEPT ![t] = "idle"]
    /\ frame' = [frame EXCEPT ![t] = 0]
    /\ args' = [args EXCEPT ![t] = <<>>]
    /\ i' = [i EXCEPT ![t] = <<>>]
    /\ UNCHANGED <<output_order, fatal_err, ncalls, fn, buf, log, overlapped,
                   crashed>>

\* A step that only moves thread t from label at to label to.
Goto(t, at, to) ==
    /\ ~crashed
    /\ pc[t] = at
    /\ pc' = [pc EXCEPT ![t] = to]
    /\ UNCHANGED <<output_order, fatal_err, ncalls, fn, frame, args, i, buf,
                   ret, log, overlapped, crashed>>


\* The output arrays of the caller of thread t's entry point: x and y of
\* ll2ij, lon and lat of sec3latlon.
CallerArrays(t) ==
    IF fn[t] = "ll2ij" THEN <<args[t].x, args[t].y>>
    ELSE <<args[t].lon, args[t].lat>>

\* The output arrays an engine function fills, among its actual arguments.
EngineArrays(e) ==
    IF e.eng = "gctpc_ll2xy_init" THEN <<>>
    ELSE IF e.eng = "gctpc_ll2xy" THEN <<e.args[4], e.args[5]>>
    ELSE <<e.args[2], e.args[3]>>

\* The engine call thread t is in was handed the caller's output arrays.
WritesCallerArrays(t) == EngineArrays(log[t][Len(log[t])]) = CallerArrays(t)

\* An engine call that ended in a fatal condition (a longjmp).
Aborted(e) == e.how \notin {"pending", "ret"}

\* The engine function thread t is in returns status k, having filled the
\* output arrays it was handed (gctpc_ll2xy_init is handed none); the bridge
\* assigns the status to i.
EngineDone(t, eng, to, assigned) ==
    /\ ~crashed
    /\ pc[t] = eng
    /\ \E k \in EngineStatus :
         /\ log' = [log EXCEPT ![t][Len(log[t])] =
                      [@ EXCEPT !.how = "ret", !.st = k]]
         /\ i' = [i EXCEPT ![t] = IF assigned THEN <<k>> ELSE @]
    /\ buf' = [buf EXCEPT ![t] =
                 IF WritesCallerArrays(t) THEN <<Len(log[t])>> ELSE @]
    /\ pc' = [pc EXCEPT ![t] = to]
    /\ UNCHANGED <<output_order, fatal_err, ncalls, fn, frame, args, ret,
                   overlapped, crashed>>

\* i = eng(...): the engine call returns and its status is assigned to i.
EngineReturns(t, eng, to) == EngineDone(t, eng, to, TRUE)

\* setjmp(fatal_err), direct invocation: the context of the calling frame is
\* stored into the shared jmp_buf (stack pointer first, then the resume
\* address) and 0 is returned.
SetjmpFrame(t, at, to) ==
    /\ ~crashed
    /\ pc[t] = at
    /\ fatal_err' = [fatal_err EXCEPT !.frame = frame[t]]
    /\ pc' = [pc EXCEPT ![t] = to]
    /\ UNCHANGED <<output_order, ncalls, fn, frame, args, i, buf, ret, log,
                   overlapped, crashed>>

SetjmpSite(t, at, to) ==
    /\ ~crashed
    /\ pc[t] = at
    /\ fatal_err' = [fatal_err EXCEPT !.site = fn[t]]
    /\ pc' = [pc EXCEPT ![t] = to]
    /\ UNCHANGED <<output_order, ncalls, fn, frame, args, i, buf, ret, log,
                   overlapped, crashed>>

\* The statement `return 9;` reached when setjmp returns non-zero.
RecoveryLabel(site) == IF site = "ll2ij" THEN "L23" ELSE "L40"

\* The recovery target is the one installed by thread t's current call.
ArmedBy(t) == fatal_err = [frame |-> frame[t], site |-> fn[t]]

\* The recovery target was installed by the live call of another thread.
ArmedByOther(t) == \E u \in Threads \ {t} : InCall(u) /\ ArmedBy(u)

\* How an engine call ended when its longjmp did not land in its own call.
WrongTarget(t) == IF ArmedByOther(t) THEN "fatal_other" ELSE "fatal_invalid"

\* What the engine leaves in the output arrays when it aborts midway.
AbortedOutput(t) ==
    IF WritesCallerArrays(t) THEN {buf[t], <<Len(log[t])>>} ELSE {buf[t]}

\* A fatal condition inside the engine call of thread t: the library does
\* longjmp(fatal_err, 1).  With the target of t's own call this resumes at
\* its setjmp, which returns non-zero.
FatalOwn(t) ==
    /\ ~crashed
    /\ pc[t] \in InEngine
    /\ ArmedBy(t)
    /\ log' = [log EXCEPT ![t][Len(log[t])].how = "fatal"]
    /\ buf' \in {[buf EXCEPT ![t] = b] : b \in AbortedOutput(t)}
    /\ pc' = [pc EXCEPT ![t] = RecoveryLabel(fn[t])]
    /\ UNCHANGED <<output_order, fatal_err, ncalls, fn, frame, args, i, ret,
                   overlapped, crashed>>

\* longjmp to a context that is not t's own call (another thread's frame, a
\* frame that has returned, or a half-written jmp_buf) is undefined: the
\* process dies, ...
FatalWrongCrash(t) ==
    /\ ~crashed
    /\ pc[t] \in InEngine
    /\ ~ArmedBy(t)
    /\ log' = [log EXCEPT ![t][Len(log[t])].how = WrongTarget(t)]
    /\ crashed' = TRUE
    /\ UNCHANGED <<output_order, fatal_err, ncalls, pc, fn, frame, args, i,
                   buf, ret, overlapped>>

\* ... or thread t carries on at the recorded resume address on the recorded
\* stack, trampling the locals of whoever owns that frame.
FatalWrongResume(t) ==
    /\ ~crashed
    /\ pc[t] \in InEngine
    /\ ~ArmedBy(t)
    /\ fatal_err.site # "none"
    /\ log' = [log EXCEPT ![t][Len(log[t])].how = WrongTarget(t)]
    /\ buf' \in {[buf EXCEPT ![t] = b] : b \in AbortedOutput(t)}
    /\ pc' = [pc EXCEPT ![t] = RecoveryLabel(fatal_err.site)]
    /\ fn' = [fn EXCEPT ![t] = fatal_err.site]
    /\ frame' = [frame EXCEPT ![t] = fatal_err.frame]
    /\ \E k \in EngineStatus :
         i' = [u \in Threads |->
                 IF u # t /\ InCall(u) /\ frame[u] = fatal_err.frame
                 THEN <<k>> ELSE i[u]]
    /\ UNCHANGED <<output_order, fatal_err, ncalls, args, ret, overlapped,
                   crashed>>

longjmp(t) == FatalOwn(t) \/ FatalWrongCrash(t) \/ FatalWrongResume(t)

\* --------------------------------------------------------------- ll2ij

\* int ll2ij(sec, grid_lon, grid_lat, npts, lon, lat, x, y)
ll2ij_enter(t) == \E a \in Ll2ijArgs : Enter(t, "ll2ij", a, "L21")

\* Mutant: ll2ij does not set the orientation flag.
ll2ij_L21_NoWrite(t) == Goto(t, "L21", "L22")

\* output_order = wesn;
ll2ij_L21(t) ==
    /\ ~crashed
    /\ pc[t] = "L21"
    /\ output_order' = wesn
    /\ pc' = [pc EXCEPT ![t] = "L22"]
    /\ UNCHANGED <<fatal_err, ncalls, fn, frame, args, i, buf, ret, log,
                   overlapped, crashed>>

\* Mutant: ll2ij installs no recovery target of its own.
ll2ij_L22_NoSetjmp(t) == Goto(t, "L22", "L22b") \/ Goto(t, "L22b", "L25")

\* if (setjmp(fatal_err)) ...   (direct return, value 0)
ll2ij_L22(t) == SetjmpFrame(t, "L22", "L22b") \/ SetjmpSite(t, "L22b", "L25")

\* Mutant: the body of the recovery branch does not return; control falls
\* through to the initializer call.
ll2ij_L23_FallThrough(t) == Goto(t, "L23", "L25")

\* ... return 9;
ll2ij_L23(t) == Return(t, "L23", FatalStatus)

\* i = gctpc_ll2xy_init(sec, grid_lon, grid_lat);
ll2ij_L25(t) ==
    \/ CallEngine(t, "L25", "gctpc_ll2xy_init",
                  <<args[t].sec, args[t].grid_lon, args[t].grid_lat>>)
    \/ (fn[t] = "ll2ij" /\ EngineReturns(t, "gctpc_ll2xy_init", "L26"))

\* Mutant: the early return on a failed initializer is missing.
ll2ij_L26_NoEarlyReturn(t) == Goto(t, "L26", "L29")

\* if (i != 0) return i;
ll2ij_L26(t) ==
    /\ pc[t] = "L26"
    /\ IF i[t][1] # 0 THEN Return(t, "L26", i[t][1]) ELSE Goto(t, "L26", "L29")

\* Mutant: lon and lat are passed in the wrong order.
ll2ij_L29_SwappedCoords(t) ==
    \/ CallEngine(t, "L29", "gctpc_ll2xy",
                  <<args[t].npts, args[t].lat, args[t].lon, args[t].x, args[t].y>>)
    \/ (fn[t] = "ll2ij" /\ EngineReturns(t, "gctpc_ll2xy", "L30"))

\* i = gctpc_ll2xy(npts, lon, lat, x, y);
ll2ij_L29(t) ==
    \/ CallEngine(t, "L29", "gctpc_ll2xy",
                  <<args[t].npts, args[t].lon, args[t].lat, args[t].x, args[t].y>>)
    \/ (fn[t] = "ll2ij" /\ EngineReturns(t, "gctpc_ll2xy", "L30"))

\* Mutant: ll2ij never gets to its final return statement.
ll2ij_L30_Spin(t) == Goto(t, "L30", "L30")

\* return i;
ll2ij_L30(t) == pc[t] = "L30" /\ Return(t, "L30", i[t][1])

ll2ij(t) ==
    \/ ll2ij_enter(t)
    \/ ll2ij_L21(t)
    \/ ll2ij_L22(t)
    \/ ll2ij_L23(t)
    \/ ll2ij_L25(t)
    \/ ll2ij_L26(t)
    \/ ll2ij_L29(t)
    \/ ll2ij_L30(t)

\* ---------------------------------------------------------- sec3latlon

\* int sec3latlon(sec, lon, lat)
sec3latlon_enter(t) == \E a \in Sec3Args : Enter(t, "sec3latlon", a, "L38")

\* output_order = wesn;
sec3latlon_L38(t) ==
    /\ ~crashed
    /\ pc[t] = "L38"
    /\ output_order' = wesn
    /\ pc' = [pc EXCEPT ![t] = "L39"]
    /\ UNCHANGED <<fatal_err, ncalls, fn, frame, args, i, buf, ret, log,
                   overlapped, crashed>>

\* Mutant: sec3latlon installs no recovery target of its own.
sec3latlon_L39_NoSetjmp(t) ==
    Goto(t, "L39", "L39b") \/ Goto(t, "L39b", "L42")

\* if (setjmp(fatal_err)) ...   (direct return, value 0)
sec3latlon_L39(t) ==
    SetjmpFrame(t, "L39", "L39b") \/ SetjmpSite(t, "L39b", "L42")

\* ... return 9;
sec3latlon_L40(t) == Return(t, "L40", FatalStatus)

\* i = gctpc_get_latlon(sec, lon, lat);
sec3latlon_L42(t) ==
    \/ CallEngine(t, "L42", "gctpc_get_latlon",
                  <<args[t].sec, args[t].lon, args[t].lat>>)
    \/ (fn[t] = "sec3latlon" /\ EngineReturns(t, "gctpc_get_latlon", "L43"))

\* Mutant: the status of the primary extractor is never tested.
sec3latlon_L43_NoFallback(t) == Goto(t, "L43", "L46")

\* Mutant: the fallback is called whatever the primary returned.
sec3latlon_L43_AlwaysFallback(t) == Goto(t, "L43", "L44")

\* if (i != 0) ...
sec3latlon_L43(t) ==
    /\ pc[t] = "L43"
    /\ IF i[t][1] # 0 THEN Goto(t, "L43", "L44") ELSE Goto(t, "L43", "L46")

\* Mutant: the status of the fallback is dropped (no assignment to i).
sec3latlon_L44_StatusDropped(t) ==
    \/ CallEngine(t, "L44", "get_latlon",
                  <<args[t].sec, args[t].lon, args[t].lat>>)
    \/ (fn[t] = "sec3latlon" /\ EngineDone(t, "get_latlon", "L46", FALSE))

\* ... i = get_latlon(sec, lon, lat);
sec3latlon_L44(t) ==
    \/ CallEngine(t, "L44", "get_latlon",
                  <<args[t].sec, args[t].lon, args[t].lat>>)
    \/ (fn[t] = "sec3latlon" /\ EngineReturns(t, "get_latlon", "L46"))

\* Mutant: the status is reduced to a success/failure flag.
sec3latlon_L46_Flag(t) ==
    pc[t] = "L46" /\ Return(t, "L46", IF i[t][1] # 0 THEN 1 ELSE 0)

\* return i;
sec3latlon_L46(t) == pc[t] = "L46" /\ Return(t, "L46", i[t][1])

sec3latlon(t) ==
    \/ sec3latlon_enter(t)
    \/ sec3latlon_L38(t)
    \/ sec3latlon_L39(t)
    \/ sec3latlon_L40(t)
    \/ sec3latlon_L42(t)
    \/ sec3latlon_L43(t)
    \/ sec3latlon_L44(t)
    \/ sec3latlon_L46(t)

Next == \E t \in Threads : ll2ij(t) \/ sec3latlon(t) \/ longjmp(t)

Spec == Init /\ [][Next]_vars

\* The last call on thread t was entry point f and it has returned.
Returned(t, f) == pc[t] = "idle" /\ fn[t] = f /\ ret[t] # <<>>

\* No engine call of thread t's current/last bridge call was aborted.
NoFatal(t) == \A n \in 1..Len(log[t]) : ~Aborted(log[t][n])

\* Engine call n of thread t exists and returned normally.
Ret(t, n) == n <= Len(log[t]) /\ log[t][n].how = "ret"

\* A step of thread t inside a bridge call: the thread that entered keeps
\* executing the straight-line code, and the engine function it is in
\* either returns or raises a fatal condition.
Run(t) == InCall(t) /\ (ll2ij(t) \/ sec3latlon(t) \/ longjmp(t))

\* The program with every thread that is inside a bridge call making
\* progress; callers are free never to call.
SpecFair == Init /\ [][Next]_vars /\ \A t \in Threads : WF_vars(Run(t))

TypeOK ==
    /\ output_order \in OrderVals
    /\ fatal_err \in [frame : 0..MaxCalls, site : {"none", "ll2ij", "sec3latlon"}]
    /\ ncalls \in 0..MaxCalls
    /\ \A t \in Threads : Len(i[t]) <= 1 /\ Len(ret[t]) <= 1 /\ Len(log[t]) <= 2
    /\ overlapped \in BOOLEAN /\ crashed \in BOOLEAN

\* ------------------------------------------------------------------ claims

\* C1: in serialized execution, whenever gctpc_ll2xy_init returns a status
\* k # 0 to ll2ij, gctpc_ll2xy is never called by that call of ll2ij (the
\* initializer stays its only engine call) and ll2ij returns exactly k.
C1_InitFailurePropagated ==
    Serialized =>
      \A t \in Threads :
        (fn[t] = "ll2ij" /\ Ret(t, 1) /\ log[t][1].st # 0) =>
          /\ Len(log[t]) = 1
          /\ log[t][1].eng = "gctpc_ll2xy_init"
          /\ pc[t] \in {"L26", "idle"}
          /\ pc[t] = "idle" => ret[t] = <<log[t][1].st>>

C1_Witness ==
    /\ Serialized
    /\ \E t \in Threads :
         /\ Returned(t, "ll2ij")
         /\ Ret(t, 1) /\ log[t][1].st = 5
         /\ ret[t] = <<5>>

\* C2: in serialized execution, whenever gctpc_get_latlon returns a non-zero
\* status and no fatal condition is raised, sec3latlon has called get_latlon
\* exactly once, with the caller's arguments, and returns get_latlon's
\* status, the caller's arrays holding what get_latlon wrote.
C2_FallbackOnPrimaryFailure ==
    Serialized =>
      \A t \in Threads :
        (Returned(t, "sec3latlon") /\ Ret(t, 1) /\ log[t][1].st # 0
           /\ NoFatal(t)) =>
          /\ Len(log[t]) = 2
          /\ log[t][1].eng = "gctpc_get_latlon"
          /\ log[t][2].eng = "get_latlon"
          /\ log[t][2].args = log[t][1].args
          /\ log[t][2].how = "ret"
          /\ ret[t] = <<log[t][2].st>>
          /\ buf[t] = <<2>>

C2_Witness ==
    /\ Serialized
    /\ \E t \in Threads :
         /\ Returned(t, "sec3latlon")
         /\ Ret(t, 1) /\ log[t][1].st = 5
         /\ Ret(t, 2) /\ log[t][2].st = 0
         /\ ret[t] = <<0>> /\ buf[t] = <<2>>

\* C3: in serialized execution, whenever gctpc_get_latlon returns 0,
\* get_latlon is never called by that call of sec3latlon, the caller's
\* arrays hold what gctpc_get_latlon wrote, and sec3latlon returns 0.
C3_PrimarySuccessNoFallback ==
    Serialized =>
      \A t \in Threads :
        (fn[t] = "sec3latlon" /\ Ret(t, 1) /\ log[t][1].st = 0) =>
          /\ Len(log[t]) = 1
          /\ log[t][1].eng = "gctpc_get_latlon"
          /\ buf[t] = <<1>>
          /\ pc[t] \in {"L43", "L46", "idle"}
          /\ pc[t] = "idle" => ret[t] = <<0>>

C3_Witness ==
    /\ Serialized
    /\ \E t \in Threads :
         /\ Returned(t, "sec3latlon")
         /\ Len(log[t]) = 1 /\ Ret(t, 1) /\ log[t][1].st = 0
         /\ ret[t] = <<0>> /\ buf[t] = <<1>>

\* C4: in serialized execution, once an engine call made by ll2ij or
\* sec3latlon has raised a fatal condition, it is the last engine call of
\* that bridge call, which is at its `return 9` or has returned 9.
C4_FatalReturnsNine ==
    Serialized =>
      \A t \in Threads : \A n \in 1..Len(log[t]) :
        Aborted(log[t][n]) =>
          /\ n = Len(log[t])
          /\ pc[t] \in {RecoveryLabel(fn[t]), "idle"}
          /\ pc[t] = "idle" => ret[t] = <<FatalStatus>>

C4_Witness ==
    /\ Serialized
    /\ \E t \in Threads :
         /\ Returned(t, "sec3latlon")
         /\ Ret(t, 1) /\ Len(log[t]) = 2 /\ Aborted(log[t][2])
         /\ ret[t] = <<9>>
    /\ \E t \in Threads :
         /\ Returned(t, "ll2ij")
         /\ Aborted(log[t][Len(log[t])])
         /\ ret[t] = <<9>>


\* C5 (as claimed): whenever no bridge call is in progress the recovery
\* target is idle, i.e. fatal_err does not hold the context of a call.
C5_IdleOutsideCalls ==
    (\A t \in Threads : ~InCall(t)) => fatal_err = NoTarget

\* The last engine call of thread t's current/last bridge call.
Last(t) == log[t][Len(log[t])]

\* C6 (as claimed): in serialized execution, a bridge call that returns 9
\* had a fatal condition raised and recovered in it, and every other
\* non-zero return value is the status its last engine call returned.
C6_NineMeansFatal ==
    Serialized =>
      \A t \in Threads :
        (pc[t] = "idle" /\ ret[t] # <<>>) =>
          /\ ret[t] = <<FatalStatus>> => Aborted(Last(t))
          /\ ret[t][1] \notin {0, FatalStatus} =>
               (Last(t).how = "ret" /\ Last(t).st = ret[t][1])

\* C6 (amended): in serialized execution, a bridge call that returns 9
\* either had a fatal condition raised and recovered in it or its last
\* engine call itself returned 9; a call in which a fatal condition was
\* raised returns 9; and every return value of a call without a fatal
\* condition is the status its last engine call returned, unchanged.
C6_NineFatalOrEngine ==
    Serialized =>
      \A t \in Threads :
        (pc[t] = "idle" /\ ret[t] # <<>>) =>
          /\ ret[t] = <<FatalStatus>> =>
               (Aborted(Last(t)) \/ (Last(t).how = "ret" /\ Last(t).st = FatalStatus))
          /\ Aborted(Last(t)) => ret[t] = <<FatalStatus>>
          /\ NoFatal(t) => (Last(t).how = "ret" /\ Last(t).st = ret[t][1])

C6_Witness ==
    /\ Serialized
    /\ \E t \in Threads :
         /\ Returned(t, "ll2ij")
         /\ NoFatal(t) /\ Ret(t, 2) /\ log[t][2].st = 9
         /\ ret[t] = <<9>>
    /\ \E t \in Threads :
         /\ Returned(t, "sec3latlon")
         /\ Aborted(Last(t))
         /\ ret[t] = <<9>>

\* An engine call of some thread ended in a longjmp that did not land in
\* the call that made it.
WrongFrameUnwind ==
    \E t \in Threads : \E n \in 1..Len(log[t]) :
      log[t][n].how \in {"fatal_other", "fatal_invalid"}

\* C7: in serialized execution no fatal condition unwinds into a call frame
\* other than the one of the bridge call whose engine call raised it; with
\* two overlapping calls (the witness) a fatal condition raised in one
\* thread's engine call unwinds to the target the other thread's live call
\* installed.
C7_SerializedUnwindsToOwnFrame == Serialized => ~WrongFrameUnwind

C7_Witness ==
    /\ overlapped
    /\ \E t \in Threads : \E n \in 1..Len(log[t]) :
         log[t][n].how = "fatal_other"

\* Both extractors were called by thread t and both returned non-zero.
BothFailed(t) ==
    /\ Len(log[t]) = 2
    /\ log[t][1].eng = "gctpc_get_latlon" /\ Ret(t, 1) /\ log[t][1].st # 0
    /\ log[t][2].eng = "get_latlon" /\ Ret(t, 2) /\ log[t][2].st # 0

\* C8 (as claimed): in serialized execution, sec3latlon returns a non-zero
\* status only if both extractors failed, and the status is the fallback's.
C8_FailureOnlyIfBothFail ==
    Serialized =>
      \A t \in Threads :
        (Returned(t, "sec3latlon") /\ ret[t][1] # 0) =>
          (BothFailed(t) /\ ret[t] = <<log[t][2].st>>)

\* C8 (amended): in serialized execution, sec3latlon returns a non-zero
\* status only if a fatal condition was raised during the call, and then
\* the status is 9, or both extractors returned non-zero, and then the
\* status is the fallback's.
C8_FailureOnlyIfBothFailOrFatal ==
    Serialized =>
      \A t \in Threads :
        (Returned(t, "sec3latlon") /\ ret[t][1] # 0) =>
          \/ (Aborted(Last(t)) /\ ret[t] = <<FatalStatus>>)
          \/ (BothFailed(t) /\ ret[t] = <<log[t][2].st>>)

C8_Witness ==
    /\ Serialized
    /\ \E t \in Threads :
         /\ Returned(t, "sec3latlon")
         /\ BothFailed(t) /\ log[t][1].st = 9 /\ log[t][2].st = 5
         /\ ret[t] = <<5>>
    /\ \E t \in Threads :
         /\ Returned(t, "sec3latlon")
         /\ Len(log[t]) = 1 /\ Aborted(log[t][1])
         /\ ret[t] = <<9>>

\* C9: in serialized execution, gctpc_ll2xy is only ever the second engine
\* call of ll2ij, made after gctpc_ll2xy_init returned 0, with the caller's
\* npts, lon, lat, x and y; and when the initializer returned 0 and no fatal
\* condition was raised, ll2ij made exactly that one call and returns its
\* status unchanged.
C9_PointMappingOnceAfterInit ==
    Serialized =>
      \A t \in Threads :
        fn[t] = "ll2ij" =>
          /\ \A n \in 1..Len(log[t]) :
               log[t][n].eng = "gctpc_ll2xy" =>
                 /\ n = 2
                 /\ log[t][1].eng = "gctpc_ll2xy_init"
                 /\ log[t][1].how = "ret" /\ log[t][1].st = 0
                 /\ InCall(t) =>
                      log[t][n].args = <<args[t].npts, args[t].lon, args[t].lat,
                                         args[t].x, args[t].y>>
          /\ (pc[t] = "idle" /\ ret[t] # <<>> /\ Ret(t, 1) /\ log[t][1].st = 0
                /\ NoFatal(t)) =>
               /\ Len(log[t]) = 2
               /\ log[t][2].eng = "gctpc_ll2xy" /\ log[t][2].how = "ret"
               /\ ret[t] = <<log[t][2].st>>
               /\ buf[t] = <<2>>

C9_Witness ==
    /\ Serialized
    /\ \E t \in Threads :
         /\ Returned(t, "ll2ij")
         /\ Ret(t, 1) /\ log[t][1].st = 0
         /\ Ret(t, 2) /\ log[t][2].st = 0 /\ log[t][2].args[1] = 2
         /\ ret[t] = <<0>> /\ buf[t] = <<2>>
    /\ \E t \in Threads :
         /\ Returned(t, "ll2ij")
         /\ Ret(t, 1) /\ log[t][1].st = 0
         /\ Ret(t, 2) /\ log[t][2].st = 5
         /\ ret[t] = <<5>>

\* C10: in serialized execution output_order equals wesn whenever a thread
\* is inside one of the four engine functions, the second engine call of a
\* bridge call included, and from the first write by the bridge onwards it
\* never holds another value.
C10_OrientationSetForEngines ==
    Serialized =>
      \A t \in Threads :
        /\ pc[t] \in InEngine => output_order = wesn
        /\ (pc[t] \notin {"idle", "L21", "L38"} \/ ret[t] # <<>>) =>
             output_order = wesn

C10_Witness ==
    /\ Serialized
    /\ output_order = wesn
    /\ \E t \in Threads :
         /\ pc[t] = "get_latlon"
         /\ Len(log[t]) = 2 /\ Ret(t, 1) /\ log[t][1].st # 0

\* Labels of an entry point at which its setjmp has not completed yet.
BeforeArmed == {"L21", "L22", "L22b", "L38", "L39", "L39b"}

\* C12: in serialized execution the recovery target is not the current
\* call's before its setjmp starts and is the current call's from the
\* completion of its setjmp until the return; the setjmp comes after the
\* orientation flag write and before the first engine call: every engine
\* call of the bridge runs with the trampoline armed by that same call,
\* never idle and never armed by an earlier call.
C12_ArmedByOwnCallInEngine ==
    Serialized =>
      \A t \in Threads :
        /\ pc[t] \in InEngine => ArmedBy(t)
        /\ (InCall(t) /\ pc[t] \notin BeforeArmed) => ArmedBy(t)
        /\ pc[t] \in {"L21", "L22", "L38", "L39"} =>
             fatal_err.frame # frame[t]
        /\ (InCall(t) /\ fatal_err.frame = frame[t]) => output_order = wesn
        /\ (InCall(t) /\ pc[t] \in BeforeArmed) => log[t] = <<>>

C12_Witness ==
    /\ Serialized
    /\ \E t \in Threads :
         /\ pc[t] = "gctpc_ll2xy"
         /\ frame[t] = 2
         /\ fatal_err = [frame |-> 2, site |-> "ll2ij"]

\* The call of thread t ended by a normal return of its last engine call's
\* status.
NormalReturn(t) ==
    NoFatal(t) /\ Last(t).how = "ret" /\ ret[t] = <<Last(t).st>>

\* The call of thread t ended by a fatal unwind and returned 9.
FatalReturn(t) == Aborted(Last(t)) /\ ret[t] = <<FatalStatus>>

\* C11: while calls are serialized, a bridge call has no return value while
\* it is in progress and, once over, has returned exactly one status, either
\* by a normal return of an engine status or by a fatal unwind with 9, never
\* both; and every bridge call in progress eventually returns such a status
\* (unless calls come to overlap), given that every engine call returns or
\* raises a fatal condition.
C11_CallReturnsOneStatus ==
    /\ [](Serialized =>
            \A t \in Threads :
              /\ InCall(t) => ret[t] = <<>>
              /\ (pc[t] = "idle" /\ fn[t] # "none") =>
                   /\ Len(ret[t]) = 1
                   /\ NormalReturn(t) \/ FatalReturn(t)
                   /\ ~(NormalReturn(t) /\ FatalReturn(t)))
    /\ \A t \in Threads :
         InCall(t) ~> (overlapped \/ (pc[t] = "idle" /\ Len(ret[t]) = 1))

C11_Witness ==
    /\ Serialized
    /\ \E t \in Threads :
         Returned(t, "ll2ij") /\ NormalReturn(t) /\ Len(log[t]) = 2
    /\ \E t \in Threads :
         Returned(t, "ll2ij") /\ FatalReturn(t) /\ Len(log[t]) = 2

====
